---- MODULE Spec2Model ----
(***************************************************************************)
(* Club and membership manager of the Book-Club backend                    *)
(* (myapp/models.py, myapp/views.py, myapp/serializers.py and the          *)
(* seed_bookclubs management command).                                     *)
(*                                                                         *)
(* The persistent store holds BookClub rows and Membership rows.  Every    *)
(* API request is one action: DRF permission check, get_object through     *)
(* get_queryset, the handler's own checks and its writes.  The response    *)
(* of the request is kept in `last` until the client has received it.      *)
(***************************************************************************)
EXTENDS Integers, FiniteSets, Sequences, TLC

\* ------------------------------------------------------------------ bounds
NumUsers == 3
MaxClubs == 1
MaxCapacity == 3
NumBooks == 2
MaxRenamedClubs == 2
MaxPending == 2
MaxReviews == 2
MaxPages == 2
MaxProgress == 1
MaxTime == 3
MaxDay == 32
MaxBatch == 3
MaxWorkers == 2
MaxDelay == 3
MaxCalls == 2
MaxBookRows == 2

\* ------------------------------------------------------- program constants
MinMaxMembers == 2
MaxMaxMembers == 1000
DiscoveryLimit == 5
MinRating == 1
MaxRating == 5
MAX_RETRIES == 3
RETRY_BACKOFF_FACTOR == 2

Users == 1..NumUsers
Anonymous == 0
Requesters == Users \cup {Anonymous}
ClubIds == 1..MaxClubs
Books == 1..NumBooks
\* club names a request may carry; the code only compares names for equality
Names == {"a"}
\* max_members values a create request may carry: below the minimum,
\* accepted ones, above the maximum
CapacityInputs == (1..MaxCapacity) \cup {MaxMaxMembers + 1}

VARIABLES
    clubs,             \* BookClub table: id -> row, for the ids that exist
    nextClubId,        \* BookClub primary-key sequence
    memberships,       \* Membership table: set of rows
    inflight,          \* id of the club whose create handler sits between
                       \* its two writes, 0 when there is none
    last,              \* latest request and its response
    sessions,          \* ReadingSession table: set of rows
    discussions,       \* Discussion table: set of rows
    recommendations,   \* BookRecommendation table: set of rows
    reviews,           \* Review table: set of rows
    pending,           \* join requests between their checks and their write:
                       \* how many there are for each (user, club)
    progress,          \* ReadingProgress table: set of rows
    now,               \* the clock that timezone.now() reads
    probe,             \* a ReadingSession (status, start_date, end_date) and
                       \* the date on which its progress is read
    shown,             \* the progress_percentage that was read
    follows,           \* Follow table: set of rows
    image_url,         \* stored image_url of each object with an image
    futures,           \* validate_images: the future of each object of the
                       \* batch, with what the main thread counted for it
    stats,             \* validate_images: the counters of the batch
    run,               \* validate_images: phase and options of the command
    request,           \* OpenLibraryAPI._make_request: the call in progress
    book_rows,         \* Book table as seed_books sees it: set of rows
    author_rows,       \* Author table: the names that have a row
    genre_rows,        \* Genre table: the names that have a row
    processed,         \* seed_books: the latest _process_single_book call
                       \* and what it returned
    seeding,           \* create_reviews_with_bell_curve: the run in progress
    seed_run,          \* master_seed: the run in progress, with the rows its
                       \* open transaction holds
    seeded             \* master_seed: the rows that are committed

\* the tables whose rows point to a BookClub with on_delete=CASCADE, directly
\* or (ReadingProgress) through their ReadingSession
owned == <<sessions, discussions, recommendations, progress>>

\* the state no club request reads or writes
\* the session whose progress is read, and the value read
viewed == <<probe, shown>>

\* the state of the parts of the program that share no table with the clubs,
\* the reviews and the reading progress
\* the image validation command: its objects, thread pool and counters
pool == <<image_url, futures, stats, run>>

\* the tables seed_books writes, and its latest call
catalogue == <<book_rows, author_rows, genre_rows, processed>>

\* the master_seed command and what it has committed
master == <<seed_run, seeded>>

aside == <<follows, pool, request, catalogue, seeding, master>>

apart == <<reviews, pending, now, viewed, aside>>

\* everything but the latest response and the state set aside
store == <<clubs, nextClubId, memberships, inflight, owned, reviews, pending, now, viewed>>

\* what the follow handlers, the image validation and the API client leave
\* alone
outsideFollow == <<store, pool, request, catalogue, seeding, master>>

outsidePool == <<store, last, follows, request, catalogue, seeding, master>>

outsideRequest == <<store, last, follows, pool, catalogue, seeding, master>>

outsideCatalogue == <<store, last, follows, pool, request, seeding, master>>

\* what a run of create_reviews_with_bell_curve leaves alone, but for the
\* Review table
outsideSeeding == <<clubs, nextClubId, memberships, inflight, last, owned,
                    pending, now, viewed, follows, pool, request, catalogue,
                    master>>

outsideMaster == <<store, last, follows, pool, request, catalogue, seeding>>

vars == <<clubs, nextClubId, memberships, inflight, last, owned, apart>>

NoRequest == [op |-> "none", user |-> 0, club |-> 0, status |-> "none", before |-> 0]

\* the objects (Book, BookClub or UserProfile rows) of one validation batch
Objects == 1..MaxBatch

\* an object that is not in the batch has no future
NoFuture == [state |-> "none", result |-> FALSE, raised |-> FALSE, counted |-> {}]

NoStats == [validated |-> 0, updated |-> 0, errors |-> 0]

\* no _make_request call in progress; `served` counts the calls that ended
NoCall == [phase |-> "idle", delay_seconds |-> 0, limited |-> 0, attempt |-> 0,
           calls |-> 0, slept |-> <<>>, result |-> "none", served |-> 0]

\* no _process_single_book call to report
NoBook == [dry_run |-> FALSE, result |-> "none"]

\* no run of create_reviews_with_bell_curve in progress
NoSeeding == [phase |-> "idle", num_reviews |-> 0, created_reviews |-> 0,
              attempts |-> 0, before |-> {}]

\* no master_seed run in progress
NoRun == [phase |-> "idle", level |-> "full", reset |-> FALSE, step |-> 0,
          interrupted |-> FALSE,
          written |-> {}, outcome |-> "none"]

\* no progress_percentage read yet; a value read is a fraction <<n, d>>, d > 0
NotShown == <<0, 0>>

Response(op, u, c, status, before) ==
    [op |-> op, user |-> u, club |-> c, status |-> status, before |-> before]

\* ------------------------------------------------------------------ store
Exists(c) == c \in DOMAIN clubs

ClubRows(c) == {m \in memberships : m.book_club = c}

\* BookClub.member_count: self.members.count() over the through table
member_count(c) == Cardinality(ClubRows(c))

ActiveRows(c) == {m \in memberships : m.book_club = c /\ m.is_active}

ActiveCount(c) == Cardinality(ActiveRows(c))

PairRows(u, c) == {m \in memberships : m.user = u /\ m.book_club = c}

\* Membership.objects.filter(user=u, book_club=c, is_active=True).exists()
IsActiveMember(u, c) == \E m \in memberships :
    m.user = u /\ m.book_club = c /\ m.is_active

\* Membership.Meta.unique_together = ['user', 'book_club']
UniqueViolation(u, c) == PairRows(u, c) # {}

\* Membership(user, book_club, role), is_active defaulting to True.  A row is
\* identified by its pair and `nth`, its rank among the rows of that pair.
NewMembership(u, c, role) ==
    [user |-> u, book_club |-> c, nth |-> Cardinality(PairRows(u, c)) + 1,
     role |-> role, is_active |-> TRUE]

\* ---------------------------------------------------------------- queries
\* the membership sub-query without its is_active=True filter
user_memberships_AnyRow(u) == {m.book_club : m \in {r \in memberships : r.user = u}}

\* Membership.objects.filter(user=user, is_active=True).values_list('book_club_id')
user_memberships(u) == {m.book_club : m \in {r \in memberships : r.user = u /\ r.is_active}}

\* BookClubViewSet.get_queryset
get_queryset(u) ==
    IF u = Anonymous
    THEN {c \in DOMAIN clubs : ~clubs[c].is_private}
    ELSE {c \in DOMAIN clubs :
            \/ ~clubs[c].is_private
            \/ clubs[c].creator = u
            \/ c \in user_memberships(u)}

\* BookClubSearchView.get_queryset
search_queryset(u) ==
    IF u = Anonymous
    THEN {c \in DOMAIN clubs : ~clubs[c].is_private}
    ELSE {c \in DOMAIN clubs :
            \/ ~clubs[c].is_private
            \/ clubs[c].creator = u
            \/ c \in user_memberships(u)}

PublicClubs == {c \in DOMAIN clubs : ~clubs[c].is_private}

\* BookClub.objects.filter(is_private=False).order_by('-created_at')[:5]
\* (ids grow with created_at)
recent_clubs ==
    {c \in PublicClubs : Cardinality({d \in PublicClubs : d > c}) < DiscoveryLimit}

\* ...annotate(Count('members')).order_by('-member_count_annotated')[:5];
\* ties are broken here by id, newest first
featured_clubs ==
    {c \in PublicClubs :
        Cardinality({d \in PublicClubs :
            \/ member_count(d) > member_count(c)
            \/ member_count(d) = member_count(c) /\ d > c}) < DiscoveryLimit}

\* book_club_discovery: clubs appearing in the response, for any requester
book_club_discovery(u) == featured_clubs \cup recent_clubs

\* self.get_object(): lookup of pk in get_queryset, Http404 otherwise
get_object(u, c) == c \in get_queryset(u)


CountBefore(c) == IF Exists(c) THEN member_count(c) ELSE 0

\* ------------------------------------------------------------ create club
\* BookClubCreateUpdateSerializer.validate_name
validate_name(u, name) == ~\E c \in DOMAIN clubs :
    clubs[c].name = name /\ clubs[c].creator = u

\* BookClubCreateUpdateSerializer.validate_max_members
validate_max_members(value) == ~(value < MinMaxMembers) /\ ~(value > MaxMaxMembers)

\* outcome of POST /bookclubs/ up to the first write
CreateStatus(u, name, maxm) ==
    IF u = Anonymous THEN "Unauthorized"
    ELSE IF ~validate_name(u, name) \/ ~validate_max_members(maxm) THEN "ValidationError"
    ELSE "Created"

NewClub(u, name, priv, maxm) ==
    [name |-> name, creator |-> u, is_private |-> priv, max_members |-> maxm]

\* BookClubCreateUpdateSerializer.create with both writes completing, in a
\* store that holds at most `limit` club ids
CreateWithin(limit, u, name, priv, maxm) ==
    LET st == CreateStatus(u, name, maxm) IN
    /\ inflight = 0
    /\ IF st = "Created"
       THEN /\ nextClubId <= limit
            /\ clubs' = clubs @@ (nextClubId :> NewClub(u, name, priv, maxm))
            /\ nextClubId' = nextClubId + 1
            /\ memberships' = memberships \cup {NewMembership(u, nextClubId, "admin")}
            /\ last' = Response("create", u, nextClubId, st, 0)
       ELSE /\ last' = Response("create", u, 0, st, 0)
            /\ UNCHANGED <<clubs, nextClubId, memberships>>
    /\ UNCHANGED inflight
    /\ UNCHANGED <<owned, apart>>

Create(u, name, priv, maxm) == CreateWithin(MaxClubs, u, name, priv, maxm)

\* -------------------------------------------------------------------- join
\* join with the capacity test written > instead of >=
JoinStatus_OffByOne(u, c) ==
    IF u = Anonymous THEN "Unauthorized"
    ELSE IF ~get_object(u, c) THEN "NotFound"
    ELSE IF IsActiveMember(u, c) THEN "AlreadyMember"
    ELSE IF member_count(c) > clubs[c].max_members THEN "AtCapacity"
    ELSE IF clubs[c].is_private /\ clubs[c].creator # u THEN "PrivateClubForbidden"
    ELSE IF UniqueViolation(u, c) THEN "IntegrityError"
    ELSE "Joined"

\* BookClubViewSet.join: outcome of POST /bookclubs/{c}/join/ by u
JoinStatus(u, c) ==
    IF u = Anonymous THEN "Unauthorized"
    ELSE IF ~get_object(u, c) THEN "NotFound"
    ELSE IF IsActiveMember(u, c) THEN "AlreadyMember"
    ELSE IF member_count(c) >= clubs[c].max_members THEN "AtCapacity"
    ELSE IF clubs[c].is_private /\ clubs[c].creator # u THEN "PrivateClubForbidden"
    ELSE IF UniqueViolation(u, c) THEN "IntegrityError"
    ELSE "Joined"

Join(u, c) ==
    LET st == JoinStatus(u, c) IN
    /\ last' = Response("join", u, c, st, CountBefore(c))
    /\ IF st = "Joined"
       THEN memberships' = memberships \cup {NewMembership(u, c, "member")}
       ELSE UNCHANGED memberships
    /\ UNCHANGED <<clubs, nextClubId, inflight>>
    /\ UNCHANGED <<owned, apart>>

\* exceptions.custom_exception_handler, its branch for the exceptions that
\* REST framework's own handler does not turn into a response; for any other
\* exception it returns None and the server answers 500
custom_exception_handler(exc) ==
    IF exc = "DjangoValidationError"
        THEN [status |-> "HTTP_400_BAD_REQUEST", detail |-> "Validation error"]
    ELSE IF exc = "Http404"
        THEN [status |-> "HTTP_404_NOT_FOUND", detail |-> "Not found"]
    ELSE IF exc = "IntegrityError"
        THEN [status |-> "HTTP_400_BAD_REQUEST", detail |-> "Database integrity error"]
    ELSE IF exc = "PermissionError"
        THEN [status |-> "HTTP_403_FORBIDDEN", detail |-> "Permission denied"]
    ELSE [status |-> "HTTP_500_INTERNAL_SERVER_ERROR", detail |-> ""]

\* the HTTP response of BookClubViewSet.join for each of its outcomes
JoinResponse(st) ==
    IF st = "Joined"
        THEN [status |-> "HTTP_201_CREATED", detail |-> "Successfully joined"]
    ELSE IF st = "AlreadyMember"
        THEN [status |-> "HTTP_400_BAD_REQUEST",
              detail |-> "You are already a member of this book club."]
    ELSE IF st = "AtCapacity"
        THEN [status |-> "HTTP_400_BAD_REQUEST",
              detail |-> "This book club is at full capacity."]
    ELSE IF st = "PrivateClubForbidden"
        THEN [status |-> "HTTP_403_FORBIDDEN",
              detail |-> "This is a private book club. You need an invitation to join."]
    ELSE IF st = "NotFound"
        THEN [status |-> "HTTP_404_NOT_FOUND", detail |-> "Not found."]
    ELSE IF st = "Unauthorized"
        THEN [status |-> "HTTP_401_UNAUTHORIZED",
              detail |-> "Authentication credentials were not provided."]
    ELSE custom_exception_handler(st)

\* ------------------------------------------------------------------- leave
\* leave without the creator test
LeaveStatus_NoCreatorCheck(u, c) ==
    IF u = Anonymous THEN "Unauthorized"
    ELSE IF ~get_object(u, c) THEN "NotFound"
    ELSE IF IsActiveMember(u, c) THEN "Left"
    ELSE "NotMember"

\* BookClubViewSet.leave: outcome of POST /bookclubs/{c}/leave/ by u
LeaveStatus(u, c) ==
    IF u = Anonymous THEN "Unauthorized"
    ELSE IF ~get_object(u, c) THEN "NotFound"
    ELSE IF clubs[c].creator = u THEN "CreatorCannotLeave"
    ELSE IF IsActiveMember(u, c) THEN "Left"
    ELSE "NotMember"

Deactivate(u, c) ==
    {IF m.user = u /\ m.book_club = c /\ m.is_active
        THEN [m EXCEPT !.is_active = FALSE] ELSE m : m \in memberships}

Leave(u, c) ==
    LET st == LeaveStatus(u, c) IN
    /\ last' = Response("leave", u, c, st, CountBefore(c))
    /\ memberships' = IF st = "Left" THEN Deactivate(u, c) ELSE memberships
    /\ UNCHANGED <<clubs, nextClubId, inflight>>
    /\ UNCHANGED <<owned, apart>>

\* ------------------------------------------------------------------ invite
\* BookClubInviteSerializer.validate_email; invitee 0 is an address of no user
validate_email(invitee, c) ==
    /\ invitee \in Users
    /\ ~\E m \in memberships : m.user = invitee /\ m.book_club = c

\* BookClubViewSet.invite: membership = ...filter(is_active=True).first()
InvitePermitted(u, c) ==
    \E m \in memberships :
        /\ m.user = u /\ m.book_club = c /\ m.is_active
        /\ ~(m.role = "member" /\ clubs[c].creator # u)

InviteStatus(u, c, invitee) ==
    IF u = Anonymous THEN "Unauthorized"
    ELSE IF ~get_object(u, c) THEN "NotFound"
    ELSE IF ~InvitePermitted(u, c) THEN "Forbidden"
    ELSE IF ~validate_email(invitee, c) THEN "ValidationError"
    ELSE "Invited"

\* an invite that enrols the invitee at once
Invite_AddsMember(u, c, invitee) ==
    LET st == InviteStatus(u, c, invitee) IN
    /\ last' = Response("invite", u, c, st, CountBefore(c))
    /\ memberships' = IF st = "Invited"
                      THEN memberships \cup {NewMembership(invitee, c, "member")}
                      ELSE memberships
    /\ UNCHANGED <<clubs, nextClubId, inflight>>
    /\ UNCHANGED <<owned, apart>>

Invite(u, c, invitee) ==
    /\ last' = Response("invite", u, c, InviteStatus(u, c, invitee), CountBefore(c))
    /\ UNCHANGED <<clubs, nextClubId, memberships, inflight>>
    /\ UNCHANGED <<owned, apart>>

\* ----------------------------------------------------------------- destroy
\* BookClubViewSet.destroy
DestroyStatus(u, c) ==
    IF u = Anonymous THEN "Unauthorized"
    ELSE IF ~get_object(u, c) THEN "NotFound"
    ELSE IF clubs[c].creator # u THEN "Forbidden"
    ELSE "Deleted"

\* a delete that removes the club and its memberships only
Destroy_NoCascade(u, c) ==
    LET st == DestroyStatus(u, c) IN
    /\ last' = Response("destroy", u, c, st, CountBefore(c))
    /\ IF st = "Deleted"
       THEN /\ clubs' = [d \in DOMAIN clubs \ {c} |-> clubs[d]]
            /\ memberships' = memberships \ ClubRows(c)
       ELSE UNCHANGED <<clubs, memberships>>
    /\ UNCHANGED <<nextClubId, inflight, owned, apart>>

\* super().destroy deletes the BookClub row; Membership.book_club,
\* ReadingSession.book_club, Discussion.book_club and
\* BookRecommendation.book_club are on_delete=CASCADE, and so is
\* ReadingProgress.reading_session
Destroy(u, c) ==
    LET st == DestroyStatus(u, c) IN
    /\ last' = Response("destroy", u, c, st, CountBefore(c))
    /\ IF st = "Deleted"
       THEN /\ clubs' = [d \in DOMAIN clubs \ {c} |-> clubs[d]]
            /\ memberships' = memberships \ ClubRows(c)
            /\ sessions' = {s \in sessions : s.book_club # c}
            /\ discussions' = {d \in discussions : d.book_club # c}
            /\ recommendations' = {r \in recommendations : r.book_club # c}
            /\ progress' = {p \in progress : p.session_club # c}
       ELSE UNCHANGED <<clubs, memberships, owned>>
    /\ UNCHANGED <<nextClubId, inflight, apart>>

\* ----------------------------------------------------- specification: API
InitStore ==
    /\ clubs = <<>>
    /\ nextClubId = 1
    /\ memberships = {}
    /\ inflight = 0
    /\ last = NoRequest
    /\ sessions = {}
    /\ discussions = {}
    /\ recommendations = {}
    /\ reviews = {}
    /\ pending = [r \in Users \X ClubIds |-> 0]
    /\ progress = {}
    /\ now = 0
    /\ follows = {}
    /\ image_url = [o \in Objects |-> "none"]
    /\ futures = [o \in Objects |-> NoFuture]
    /\ stats = NoStats
    /\ run = [phase |-> "idle", dry_run |-> FALSE, max_workers |-> 1]
    /\ request = NoCall
    /\ book_rows = {}
    /\ author_rows = {}
    /\ genre_rows = {}
    /\ processed = NoBook
    /\ seeding = NoSeeding
    /\ seed_run = NoRun
    /\ seeded = {}

Init ==
    /\ InitStore
    /\ probe = [status |-> "upcoming", start_date |-> 0, end_date |-> 0, today |-> 0]
    /\ shown = NotShown

DoCreate == \E u \in Requesters, name \in Names, priv \in BOOLEAN, maxm \in CapacityInputs :
    Create(u, name, priv, maxm)

DoJoin == \E u \in Requesters, c \in ClubIds : Join(u, c)

DoLeave == \E u \in Users, c \in ClubIds : Leave(u, c)

DoInvite == \E u \in Users, c \in ClubIds, invitee \in Requesters : Invite(u, c, invitee)

DoDestroy == \E u \in Users, c \in ClubIds : Destroy(u, c)

\* the client receives the response; the next request is sent after that
Deliver ==
    /\ last # NoRequest
    /\ last' = NoRequest
    /\ UNCHANGED <<clubs, nextClubId, memberships, inflight>>
    /\ UNCHANGED <<owned, apart>>

Handle == DoCreate \/ DoJoin \/ DoLeave \/ DoInvite \/ DoDestroy

Next == (last = NoRequest /\ Handle) \/ Deliver

Spec == Init /\ [][Next]_vars

\* ------------------------------------- specification: API and seed command
\* seed_bookclubs.Command.seed_book_clubs, one iteration of its loop over
\* book_clubs_data: a random creator, random max_members and is_private, and a
\* random sample of the users as members.  The sample is drawn independently
\* of the creator; a sampled creator gets role admin, the others member or
\* moderator.  The command draws 8..25 members out of the 50 seeded users and
\* max_members in 15..50; here the sample is any non-empty set of users and
\* max_members any accepted value, which keeps both "sample smaller than the
\* user table" and "sample larger than max_members".
SeedRows(c, creator, roleOf) ==
    {[user |-> u, book_club |-> c, nth |-> 1,
      role |-> IF u = creator THEN "admin" ELSE roleOf[u],
      is_active |-> TRUE] : u \in DOMAIN roleOf}

SeedBookClub(creator, name, priv, maxm, roleOf) ==
    /\ inflight = 0
    /\ nextClubId <= MaxClubs
    /\ clubs' = clubs @@ (nextClubId :> NewClub(creator, name, priv, maxm))
    /\ nextClubId' = nextClubId + 1
    /\ memberships' = memberships \cup SeedRows(nextClubId, creator, roleOf)
    /\ UNCHANGED <<inflight, last>>
    /\ UNCHANGED <<owned, apart>>

DoSeed == \E creator \in Users, name \in Names, priv \in BOOLEAN,
             maxm \in MinMaxMembers..MaxCapacity,
             members \in SUBSET Users \ {{}} :
          \E roleOf \in [members -> {"member", "moderator"}] :
             SeedBookClub(creator, name, priv, maxm, roleOf)

NextSeed == (last = NoRequest /\ (Handle \/ DoSeed)) \/ Deliver

SpecSeed == Init /\ [][NextSeed]_vars

\* ------------------------- specification: API with a create that can stop
\* BookClubCreateUpdateSerializer.create writes the BookClub row
\* (super().create) and then the Membership row, in autocommit mode: no
\* transaction.atomic around them and no ATOMIC_REQUESTS in settings.  Here
\* the two writes are two steps, and between them the process may stop.
CreateWriteClub(u, name, priv, maxm) ==
    /\ inflight = 0
    /\ CreateStatus(u, name, maxm) = "Created"
    /\ nextClubId <= MaxClubs
    /\ clubs' = clubs @@ (nextClubId :> NewClub(u, name, priv, maxm))
    /\ nextClubId' = nextClubId + 1
    /\ inflight' = nextClubId
    /\ UNCHANGED <<memberships, last>>
    /\ UNCHANGED <<owned, apart>>

\* second write, then the 201 response; the row's foreign key and unique
\* constraint are checked by the store
CreateWriteMembership ==
    /\ inflight # 0
    /\ inflight' = 0
    /\ IF Exists(inflight) /\ ~UniqueViolation(clubs[inflight].creator, inflight)
       THEN /\ memberships' = memberships \cup
                {NewMembership(clubs[inflight].creator, inflight, "admin")}
            /\ last' = Response("create", clubs[inflight].creator, inflight, "Created", 0)
       ELSE /\ UNCHANGED memberships
            /\ last' = Response("create", 0, inflight, "IntegrityError", 0)
    /\ UNCHANGED <<clubs, nextClubId>>
    /\ UNCHANGED <<owned, apart>>

\* the worker process stops between the two writes; no response is sent
ProcessStops ==
    /\ inflight # 0
    /\ inflight' = 0
    /\ UNCHANGED <<clubs, nextClubId, memberships, last>>
    /\ UNCHANGED <<owned, apart>>

DoCreateWriteClub == \E u \in Users, name \in Names, priv \in BOOLEAN,
                        maxm \in MinMaxMembers..MaxCapacity :
    CreateWriteClub(u, name, priv, maxm)

\* requests are served one at a time: nothing else runs while a create sits
\* between its writes
NextCrash ==
    \/ last = NoRequest /\ inflight = 0 /\ (Handle \/ DoCreateWriteClub)
    \/ CreateWriteMembership
    \/ ProcessStops
    \/ Deliver

SpecCrash == Init /\ [][NextCrash]_vars

\* ------------------- specification: API, the latest response kept on record
\* the same handlers; `last` is never cleared, so a step sees the request
\* that came right before it
SpecSeq == Init /\ [][Handle]_vars

\* ------------------------------ specification: API and club content seeds
\* the users with a Membership row in the club: club.members.all()
members_all(c) == {m.user : m \in ClubRows(c)}

\* seed_bookclubs.Command.seed_reading_sessions, one iteration of its loop
\* over the clubs: a 'current' session for one book and a 'completed' session
\* for another book.  The command is run here on a club without sessions.
SeedReadingSessions(c, current_book, past_book) ==
    /\ Exists(c)
    /\ current_book # past_book
    /\ ~\E s \in sessions : s.book_club = c
    /\ sessions' = sessions \cup
         {[book_club |-> c, book |-> current_book, status |-> "current"],
          [book_club |-> c, book |-> past_book, status |-> "completed"]}
    /\ UNCHANGED <<clubs, nextClubId, memberships, inflight, last>>
    /\ UNCHANGED <<discussions, recommendations, progress, apart>>

\* seed_bookclubs.Command.seed_discussions_and_reviews, one Discussion of a
\* club that has members, written by one of them; a table row is told from
\* the others by its club and author
SeedDiscussion(c, author) ==
    /\ Exists(c)
    /\ author \in members_all(c)
    /\ discussions' = discussions \cup {[book_club |-> c, author |-> author]}
    /\ UNCHANGED <<clubs, nextClubId, memberships, inflight, last>>
    /\ UNCHANGED <<sessions, recommendations, progress, apart>>

\* seed_discussions_reviews_progress.Command.create_recommendations, one
\* recommendation: a book the club has no reading session for, drawn without
\* replacement, recommended by one of the club's members
SeedRecommendation(c, book, recommended_by) ==
    /\ Exists(c)
    /\ recommended_by \in members_all(c)
    /\ ~\E s \in sessions : s.book_club = c /\ s.book = book
    /\ ~\E r \in recommendations : r.book_club = c /\ r.book = book
    /\ recommendations' = recommendations \cup
         {[book_club |-> c, book |-> book, recommended_by |-> recommended_by]}
    /\ UNCHANGED <<clubs, nextClubId, memberships, inflight, last>>
    /\ UNCHANGED <<sessions, discussions, progress, apart>>

DoSeedReadingSessions == \E c \in ClubIds, current_book \in Books, past_book \in Books :
    SeedReadingSessions(c, current_book, past_book)

DoSeedDiscussion == \E c \in ClubIds, author \in Users : SeedDiscussion(c, author)

DoSeedRecommendation == \E c \in ClubIds, book \in Books, recommended_by \in Users :
    SeedRecommendation(c, book, recommended_by)

SeedContent == DoSeedReadingSessions \/ DoSeedDiscussion \/ DoSeedRecommendation

NextContent == (last = NoRequest /\ (Handle \/ SeedContent)) \/ Deliver

SpecContent == Init /\ [][NextContent]_vars

\* ------------------------------------- specification: create and update
\* PUT and PATCH /bookclubs/{c}/ are ModelViewSet.update and partial_update,
\* which BookClubViewSet does not override: get_object, then
\* BookClubCreateUpdateSerializer validates the fields the request carries
\* (validate_name looks for a club of the requesting user with that name),
\* then ModelSerializer.update assigns them and saves.  The serializer has no
\* creator field.  `data` is the set of fields the request carries; a PUT
\* must carry name, the other two fields have model defaults.
UpdateFields == {"name", "is_private", "max_members"}

UpdateNames == {"a", "b"}

UpdateClubIds == 1..MaxRenamedClubs

UpdateStatus(u, c, partial, data, name, maxm) ==
    IF u = Anonymous THEN "Unauthorized"
    ELSE IF ~get_object(u, c) THEN "NotFound"
    ELSE IF ~partial /\ "name" \notin data THEN "ValidationError"
    ELSE IF "name" \in data /\ ~validate_name(u, name) THEN "ValidationError"
    ELSE IF "max_members" \in data /\ ~validate_max_members(maxm) THEN "ValidationError"
    ELSE "Updated"

Updated(row, data, name, priv, maxm) ==
    [name        |-> IF "name" \in data THEN name ELSE row.name,
     creator     |-> row.creator,
     is_private  |-> IF "is_private" \in data THEN priv ELSE row.is_private,
     max_members |-> IF "max_members" \in data THEN maxm ELSE row.max_members]

Update(u, c, partial, data, name, priv, maxm) ==
    LET st == UpdateStatus(u, c, partial, data, name, maxm) IN
    /\ last' = Response(IF partial THEN "partial_update" ELSE "update", u, c, st, CountBefore(c))
    /\ clubs' = IF st = "Updated"
                THEN [clubs EXCEPT ![c] = Updated(@, data, name, priv, maxm)]
                ELSE clubs
    /\ UNCHANGED <<nextClubId, memberships, inflight, owned, apart>>

DoCreateNamed == \E u \in Requesters, name \in UpdateNames, priv \in BOOLEAN,
                    maxm \in CapacityInputs :
    CreateWithin(MaxRenamedClubs, u, name, priv, maxm)

DoUpdate == \E u \in Requesters, c \in UpdateClubIds, partial \in BOOLEAN,
               data \in SUBSET UpdateFields, name \in UpdateNames,
               priv \in BOOLEAN, maxm \in CapacityInputs :
    Update(u, c, partial, data, name, priv, maxm)

NextUpdate == (last = NoRequest /\ (DoCreateNamed \/ DoUpdate)) \/ Deliver

SpecUpdate == Init /\ [][NextUpdate]_vars

\* --------------------------------- specification: API with racing joins
\* Requests are served by independent workers on one store in autocommit
\* mode.  BookClubViewSet.join reads (get_object, the already-member test,
\* the capacity test, the privacy test) and then writes
\* (Membership.objects.create); another request can be served between the
\* reads and the write.  pending[u, c] counts the join requests of u for c
\* that have passed the reads and not yet written.
PendingTotal == LET Sum[S \in SUBSET (Users \X ClubIds)] ==
                        IF S = {} THEN 0
                        ELSE LET r == CHOOSE x \in S : TRUE IN pending[r] + Sum[S \ {r}]
                IN  Sum[Users \X ClubIds]

\* BookClubViewSet.join up to the write: the request is answered by one of
\* the early returns or goes on to the write
JoinCheck(u, c) ==
    LET st == JoinStatus(u, c) IN
    /\ u \in Users
    /\ IF st \in {"Joined", "IntegrityError"}
       THEN /\ PendingTotal < MaxPending
            /\ pending' = [pending EXCEPT ![<<u, c>>] = @ + 1]
            /\ UNCHANGED last
       ELSE /\ last' = Response("join", u, c, st, CountBefore(c))
            /\ UNCHANGED pending
    /\ UNCHANGED <<clubs, nextClubId, memberships, inflight, owned, reviews, now, viewed, aside>>

\* a write that the store accepts whatever rows exist
JoinWrite_NoConstraint(u, c) ==
    /\ pending[<<u, c>>] > 0
    /\ pending' = [pending EXCEPT ![<<u, c>>] = @ - 1]
    /\ IF Exists(c)
       THEN /\ memberships' = memberships \cup {NewMembership(u, c, "member")}
            /\ last' = Response("join", u, c, "Joined", CountBefore(c))
       ELSE /\ last' = Response("join", u, c, "IntegrityError", CountBefore(c))
            /\ UNCHANGED memberships
    /\ UNCHANGED <<clubs, nextClubId, inflight, owned, reviews, now, viewed, aside>>

\* Membership.objects.create and the response: the store rejects the row
\* when the pair already has one (unique_together) or the club is gone
\* (foreign key); the IntegrityError reaches custom_exception_handler
JoinWrite(u, c) ==
    /\ pending[<<u, c>>] > 0
    /\ pending' = [pending EXCEPT ![<<u, c>>] = @ - 1]
    /\ IF Exists(c) /\ ~UniqueViolation(u, c)
       THEN /\ memberships' = memberships \cup {NewMembership(u, c, "member")}
            /\ last' = Response("join", u, c, "Joined", CountBefore(c))
       ELSE /\ last' = Response("join", u, c, "IntegrityError", CountBefore(c))
            /\ UNCHANGED memberships
    /\ UNCHANGED <<clubs, nextClubId, inflight, owned, reviews, now, viewed, aside>>

DoJoinCheck == \E u \in Users, c \in ClubIds : JoinCheck(u, c)

DoJoinWrite == \E u \in Users, c \in ClubIds : JoinWrite(u, c)

NextRace ==
    \/ last = NoRequest /\ (DoCreate \/ DoJoinCheck \/ DoJoinWrite \/ DoLeave \/ DoDestroy)
    \/ Deliver

SpecRace == Init /\ [][NextRace]_vars

\* ------------------------------------------------- specification: reviews
\* rating values a request may carry: below the range, its ends, above it
RatingInputs == {MinRating - 1, MinRating, MaxRating, MaxRating + 1}

\* title and content values; the code stores them as given
Texts == {"x", "y"}

ReviewOf(u, book) == {r \in reviews : r.user = u /\ r.book = book}

\* Review.rating validators MinValueValidator(1), MaxValueValidator(5), run
\* by the serializer field
validate_rating(rating) == MinRating <= rating /\ rating <= MaxRating

\* ReviewCreateUpdateSerializer: `user` is not a serializer field, so the
\* serializer runs no uniqueness validator for unique_together (user, book);
\* the duplicate is rejected by the store when create inserts the row
CreateReviewStatus(u, book, rating) ==
    IF u = Anonymous THEN "Unauthorized"
    ELSE IF ~validate_rating(rating) THEN "ValidationError"
    ELSE IF ReviewOf(u, book) # {} THEN "IntegrityError"
    ELSE "Created"

NewReview(u, book, rating, title, content) ==
    [user |-> u, book |-> book, rating |-> rating, title |-> title, content |-> content]

\* ReviewCreateUpdateSerializer.create, called with validated data
CreateReview(u, book, rating, title, content) ==
    LET st == CreateReviewStatus(u, book, rating) IN
    /\ last' = Response("create_review", u, 0, st, 0)
    /\ IF st = "Created"
       THEN /\ Cardinality(reviews) < MaxReviews
            /\ reviews' = reviews \cup {NewReview(u, book, rating, title, content)}
       ELSE UNCHANGED reviews
    /\ UNCHANGED <<clubs, nextClubId, memberships, inflight, owned, pending, now, viewed, aside>>

\* seed_discussions_reviews_progress.Command.create_reviews_with_bell_curve,
\* one iteration of its loop: a random user and book, skipped when the pair
\* has a review; the rating comes from np.clip(np.round(...), 1, 5)
SeedReview(u, book, rating, title, content) ==
    /\ ReviewOf(u, book) = {}
    /\ Cardinality(reviews) < MaxReviews
    /\ reviews' = reviews \cup {NewReview(u, book, rating, title, content)}
    /\ UNCHANGED <<clubs, nextClubId, memberships, inflight, last, owned, pending, now, viewed, aside>>

DoCreateReview == \E u \in Requesters, book \in Books, rating \in RatingInputs,
                     title \in Texts, content \in Texts :
    CreateReview(u, book, rating, title, content)

DoSeedReview == \E u \in Users, book \in Books, rating \in MinRating..MaxRating,
                   title \in Texts, content \in Texts :
    SeedReview(u, book, rating, title, content)

NextReview == (last = NoRequest /\ (DoCreateReview \/ DoSeedReview)) \/ Deliver

SpecReview == Init /\ [][NextReview]_vars

\* ---------------------------------------- specification: reading progress
\* a DateTimeField that holds None
Null == 0

\* Book.page_count of the seeded books: book 1 has MaxPages pages, the page
\* count of the other books is unknown (None, which the code tests like 0)
page_count(book) == IF book = 1 THEN MaxPages ELSE 0

\* a save that stamps whenever the condition on the field holds
save_Restamp(p, t) ==
    LET s1 == IF p.current_page > 0 THEN [p EXCEPT !.started_at = t] ELSE p IN
    IF s1.is_finished
    THEN [s1 EXCEPT !.finished_at = t,
                    !.current_page = IF page_count(p.book) # 0
                                     THEN page_count(p.book) ELSE @]
    ELSE s1

\* ReadingProgress.save at time t: the row that is written
save(p, t) ==
    LET s1 == IF p.current_page > 0 /\ p.started_at = Null
              THEN [p EXCEPT !.started_at = t] ELSE p IN
    IF s1.is_finished /\ s1.finished_at = Null
    THEN [s1 EXCEPT !.finished_at = t,
                    !.current_page = IF page_count(p.book) # 0
                                     THEN page_count(p.book) ELSE @]
    ELSE s1

\* the rows of one (user, book, reading_session); session_club is the club
\* of the row's reading session, 0 for a row without a session
ProgressOf(u, book, sc) ==
    {p \in progress : p.user = u /\ p.book = book /\ p.session_club = sc}

\* ReadingProgress.objects.create(user=, book=, current_page=, is_finished=):
\* the timestamps start as None, then save.  One row is kept per key.
CreateProgress(u, book, current_page, is_finished) ==
    /\ now < MaxTime
    /\ Cardinality(progress) < MaxProgress
    /\ ProgressOf(u, book, 0) = {}
    /\ progress' = progress \cup
         {save([user |-> u, book |-> book, session_club |-> 0,
                current_page |-> current_page, is_finished |-> is_finished,
                started_at |-> Null, finished_at |-> Null], now + 1)}
    /\ now' = now + 1
    /\ UNCHANGED <<clubs, nextClubId, memberships, inflight, last>>
    /\ UNCHANGED <<sessions, discussions, recommendations, reviews, pending, viewed, aside>>

\* ReadingProgressUpdateSerializer (fields current_page, is_finished, notes):
\* the two fields are assigned to the stored row p, then save
UpdateProgress(p, current_page, is_finished) ==
    /\ now < MaxTime
    /\ p \in progress
    /\ progress' = (progress \ {p}) \cup
         {save([p EXCEPT !.current_page = current_page,
                         !.is_finished = is_finished], now + 1)}
    /\ now' = now + 1
    /\ UNCHANGED <<clubs, nextClubId, memberships, inflight, last>>
    /\ UNCHANGED <<sessions, discussions, recommendations, reviews, pending, viewed, aside>>

\* seed_discussions_reviews_progress.Command.create_reading_progress: the
\* pages a reader of session s may be given.  With a known page count a
\* current session gets randint(0, min(pc, int(pc * uniform(0.1, 0.9)))) and
\* an upcoming one randint(0, min(50, pc // 4)); without one randint(0, 200),
\* which is cut here at MaxPages.
SeedPages(s) ==
    LET pc == page_count(s.book) IN
    IF pc # 0
    THEN IF s.status = "current" THEN 0..((9 * pc) \div 10)
         ELSE 0..(IF 50 < pc \div 4 THEN 50 ELSE pc \div 4)
    ELSE 0..MaxPages

\* create_reading_progress, one reader of one active session: skipped when
\* the (user, book, session) row exists; is_finished is current_page ==
\* page_count; started_at is a time up to now (None for an upcoming session
\* with no page read), finished_at is set only for a finished row
SeedReadingProgress(s, u, current_page, started) ==
    LET pc == page_count(s.book)
        is_finished == pc # 0 /\ current_page = pc
        started_at == IF s.status = "upcoming" /\ current_page = 0 THEN Null ELSE started IN
    /\ now < MaxTime
    /\ Cardinality(progress) < MaxProgress
    /\ s \in sessions
    /\ s.status \in {"current", "upcoming"}
    /\ u \in members_all(s.book_club)
    /\ current_page \in SeedPages(s)
    /\ started \in 1..(now + 1)
    /\ ProgressOf(u, s.book, s.book_club) = {}
    /\ progress' = progress \cup
         {save([user |-> u, book |-> s.book, session_club |-> s.book_club,
                current_page |-> current_page, is_finished |-> is_finished,
                started_at |-> started_at,
                finished_at |-> IF is_finished THEN now + 1 ELSE Null], now + 1)}
    /\ now' = now + 1
    /\ UNCHANGED <<clubs, nextClubId, memberships, inflight, last>>
    /\ UNCHANGED <<sessions, discussions, recommendations, reviews, pending, viewed, aside>>

DoCreateProgress == \E u \in Users, book \in Books, current_page \in 0..MaxPages,
                       is_finished \in BOOLEAN :
    CreateProgress(u, book, current_page, is_finished)

DoUpdateProgress == \E p \in progress, current_page \in 0..MaxPages, is_finished \in BOOLEAN :
    UpdateProgress(p, current_page, is_finished)

DoSeedReadingProgress == \E s \in sessions, u \in Users, current_page \in 0..MaxPages,
                            started \in 1..MaxTime :
    SeedReadingProgress(s, u, current_page, started)

NextProgress ==
    \/ /\ last = NoRequest
       /\ \/ DoCreate
          \/ DoSeedReadingSessions
          \/ DoCreateProgress
          \/ DoUpdateProgress
          \/ DoSeedReadingProgress
    \/ Deliver

SpecProgress == Init /\ [][NextProgress]_vars

\* ---------------------------- specification: progress of a reading session
\* dates are day numbers; day 1 is 2024-01-01, day 31 is 2024-01-31
Days == 0..MaxDay

SessionStatus == {"upcoming", "current", "completed", "cancelled"}

\* a fraction that is not clamped from above
progress_percentage_NoMin(status, start_date, end_date, today) ==
    IF status = "completed" THEN <<100, 1>>
    ELSE IF status = "upcoming" THEN <<0, 1>>
    ELSE LET total_days == end_date - start_date
             elapsed_days == today - start_date IN
         IF total_days > 0
         THEN IF elapsed_days * 100 < 0 THEN <<0, 1>>
              ELSE <<elapsed_days * 100, total_days>>
         ELSE <<0, 1>>

\* ReadingSession.progress_percentage on the day `today`.  The value is the
\* int 100 or 0, or the float (elapsed_days / total_days) * 100 between them;
\* it is kept here as the exact fraction <<numerator, denominator>>, which
\* the float equals up to its last binary digit.
progress_percentage(status, start_date, end_date, today) ==
    IF status = "completed" THEN <<100, 1>>
    ELSE IF status = "upcoming" THEN <<0, 1>>
    ELSE LET total_days == end_date - start_date
             elapsed_days == today - start_date IN
         IF total_days > 0
         THEN IF elapsed_days * 100 < 0 THEN <<0, 1>>
              ELSE IF elapsed_days * 100 > 100 * total_days THEN <<100, 1>>
              ELSE <<elapsed_days * 100, total_days>>
         ELSE <<0, 1>>

InitPercentage ==
    /\ InitStore
    /\ probe \in [status : SessionStatus, start_date : Days, end_date : Days, today : Days]
    /\ shown = NotShown

\* the serializer field progress_percentage of ReadingSessionSerializer
ReadPercentage ==
    /\ shown = NotShown
    /\ shown' = progress_percentage(probe.status, probe.start_date, probe.end_date, probe.today)
    /\ UNCHANGED <<clubs, nextClubId, memberships, inflight, last, owned>>
    /\ UNCHANGED <<reviews, pending, now, probe, aside>>

\* the next day
DayPasses ==
    /\ probe.today < MaxDay
    /\ probe' = [probe EXCEPT !.today = @ + 1]
    /\ shown' = NotShown
    /\ UNCHANGED <<clubs, nextClubId, memberships, inflight, last, owned>>
    /\ UNCHANGED <<reviews, pending, now, aside>>

NextPercentage == ReadPercentage \/ DayPasses

SpecPercentage == InitPercentage /\ [][NextPercentage]_vars

\* ------------------------------------------ specification: follow relation
\* user ids a follow or unfollow request may carry: the users, and an id no
\* user has
UserIdInputs == Users \cup {NumUsers + 1}

\* Follow rows of the ordered pair; a row is identified by its pair and
\* `nth`, its rank among the rows of that pair
FollowRows(follower, following) ==
    {f \in follows : f.follower = follower /\ f.following = following}

\* the response of follow_user and unfollow_user: the HTTP status and which
\* body it carries ('message' of the handler, or the serializer's errors)
FollowResponse(op, u, user_id, status, body) ==
    [op |-> op, user |-> u, user_id |-> user_id, status |-> status, body |-> body]

\* FollowActionSerializer.validate_user_id
validate_user_id(u, user_id) == user_id \in Users /\ u # user_id

\* Follow.save: ValidationError when follower == following
FollowSaves(follower, following) == follower # following

\* Follow.objects.get_or_create(follower=, following=) always inserting
get_or_create_NoGet(follower, following) ==
    [created |-> TRUE,
     rows |-> follows \cup {[follower |-> follower, following |-> following,
                             nth |-> Cardinality(FollowRows(follower, following)) + 1]}]

\* Follow.objects.get_or_create(follower=, following=): the rows after the
\* call and whether one was created
get_or_create(follower, following) ==
    IF FollowRows(follower, following) # {}
    THEN [created |-> FALSE, rows |-> follows]
    ELSE [created |-> TRUE,
          rows |-> follows \cup {[follower |-> follower, following |-> following,
                                  nth |-> 1]}]

\* views.follow_user
follow_user(u, user_id) ==
    /\ IF u = Anonymous
       THEN /\ last' = FollowResponse("follow", u, user_id, "HTTP_401_UNAUTHORIZED", "detail")
            /\ UNCHANGED follows
       ELSE IF ~validate_user_id(u, user_id)
       THEN /\ last' = FollowResponse("follow", u, user_id, "HTTP_400_BAD_REQUEST", "errors")
            /\ UNCHANGED follows
       ELSE LET got == get_or_create(u, user_id) IN
            /\ FollowSaves(u, user_id)
            /\ follows' = got.rows
            /\ last' = FollowResponse("follow", u, user_id,
                           IF got.created THEN "HTTP_201_CREATED" ELSE "HTTP_200_OK",
                           "message")
    /\ UNCHANGED outsideFollow

\* views.unfollow_user
unfollow_user(u, user_id) ==
    /\ IF u = Anonymous
       THEN /\ last' = FollowResponse("unfollow", u, user_id, "HTTP_401_UNAUTHORIZED", "detail")
            /\ UNCHANGED follows
       ELSE IF ~validate_user_id(u, user_id)
       THEN /\ last' = FollowResponse("unfollow", u, user_id, "HTTP_400_BAD_REQUEST", "errors")
            /\ UNCHANGED follows
       ELSE IF FollowRows(u, user_id) = {}
       THEN /\ last' = FollowResponse("unfollow", u, user_id, "HTTP_400_BAD_REQUEST", "message")
            /\ UNCHANGED follows
       ELSE /\ follows' = follows \ FollowRows(u, user_id)
            /\ last' = FollowResponse("unfollow", u, user_id, "HTTP_200_OK", "message")
    /\ UNCHANGED outsideFollow

DoFollow == \E u \in Requesters, user_id \in UserIdInputs : follow_user(u, user_id)

DoUnfollow == \E u \in Requesters, user_id \in UserIdInputs : unfollow_user(u, user_id)

NextFollow == (last = NoRequest /\ (DoFollow \/ DoUnfollow)) \/ Deliver

SpecFollow == Init /\ [][NextFollow]_vars

\* ------------------------------------ specification: image validation pool
\* an object gets an image URL (Book.image_url, BookClub.image_url,
\* UserProfile.image_url are nullable); the command is not running
SetImageUrl(o) ==
    /\ run.phase = "idle"
    /\ image_url[o] = "none"
    /\ image_url' = [image_url EXCEPT ![o] = "original"]
    /\ UNCHANGED <<futures, stats, run>>
    /\ UNCHANGED outsidePool

\* validate_images.Command._validate_image_batch up to the submission of its
\* tasks: one task for each object of the batch that has a URL; without
\* tasks it returns zero counters
SubmitBatch(dry_run, max_workers) ==
    /\ run.phase = "idle"
    /\ futures' = [o \in Objects |->
                     IF image_url[o] # "none"
                     THEN [NoFuture EXCEPT !.state = "submitted"]
                     ELSE NoFuture]
    /\ stats' = NoStats
    /\ run' = [phase |-> IF \E o \in Objects : image_url[o] # "none"
                         THEN "collecting" ELSE "returned",
               dry_run |-> dry_run, max_workers |-> max_workers]
    /\ UNCHANGED image_url
    /\ UNCHANGED outsidePool

\* a thread of the ThreadPoolExecutor takes a submitted task; at most
\* max_workers tasks run at a time
WorkerTakes(o) ==
    /\ run.phase = "collecting"
    /\ futures[o].state = "submitted"
    /\ Cardinality({x \in Objects : futures[x].state = "running"}) < run.max_workers
    /\ futures' = [futures EXCEPT ![o].state = "running"]
    /\ UNCHANGED <<image_url, stats, run>>
    /\ UNCHANGED outsidePool

\* the outcomes of library.images.validate_url for a URL: a 2xx answer,
\* another answer, or an exception
UrlOutcomes == {"valid", "invalid", "raises"}

\* validate_images.Command._validate_single_url: validate_url's answer, and
\* False when validate_url raised; no exception leaves the task
validate_single_url(outcome) ==
    [result |-> outcome = "valid", raised |-> outcome = "raises",
     exception |-> FALSE]

\* the thread finishes its task: the future is done
WorkerFinishes(o, outcome) ==
    /\ run.phase = "collecting"
    /\ futures[o].state = "running"
    /\ futures' = [futures EXCEPT
                     ![o].state = IF validate_single_url(outcome).exception
                                  THEN "failed" ELSE "done",
                     ![o].result = validate_single_url(outcome).result,
                     ![o].raised = validate_single_url(outcome).raised]
    /\ UNCHANGED <<image_url, stats, run>>
    /\ UNCHANGED outsidePool

\* the counters after the main thread counted the object in `names`
Counted(names) ==
    [validated |-> stats.validated + (IF "validated" \in names THEN 1 ELSE 0),
     updated |-> stats.updated + (IF "updated" \in names THEN 1 ELSE 0),
     errors |-> stats.errors + (IF "errors" \in names THEN 1 ELSE 0)]

\* validate_images.Command._validate_image_batch, one iteration of the loop
\* over as_completed: the main thread takes a finished future, in the order
\* of completion.  `saves` tells whether obj.save succeeds.
Collect(o, saves) ==
    /\ run.phase = "collecting"
    /\ futures[o].state \in {"done", "failed"}
    /\ LET names ==
             IF futures[o].state = "failed" THEN {"validated", "errors"}
             ELSE IF ~futures[o].result
                  THEN IF run.dry_run \/ saves
                       THEN {"validated", "updated"}
                       ELSE {"validated", "errors"}
                  ELSE IF run.dry_run \/ saves
                       THEN {"validated"}
                       ELSE {"validated", "errors"}
       IN /\ futures' = [futures EXCEPT ![o].state = "collected",
                                        ![o].counted = names]
          /\ stats' = Counted(names)
          /\ image_url' =
               IF /\ futures[o].state = "done"
                  /\ ~futures[o].result
                  /\ ~run.dry_run
                  /\ saves
               THEN [image_url EXCEPT ![o] = "placeholder"]
               ELSE image_url
    /\ UNCHANGED run
    /\ UNCHANGED outsidePool

\* every future was collected: the executor is closed and the counters are
\* returned
ReturnStats ==
    /\ run.phase = "collecting"
    /\ \A o \in Objects : futures[o].state \in {"none", "collected"}
    /\ run' = [run EXCEPT !.phase = "returned"]
    /\ UNCHANGED <<image_url, futures, stats>>
    /\ UNCHANGED outsidePool

DoSetImageUrl == \E o \in Objects : SetImageUrl(o)

DoSubmitBatch == \E dry_run \in BOOLEAN, max_workers \in 1..MaxWorkers :
    SubmitBatch(dry_run, max_workers)

DoWorkerTakes == \E o \in Objects : WorkerTakes(o)

DoWorkerFinishes == \E o \in Objects, outcome \in UrlOutcomes : WorkerFinishes(o, outcome)

DoCollect == \E o \in Objects, saves \in BOOLEAN : Collect(o, saves)

NextPool ==
    \/ DoSetImageUrl
    \/ DoSubmitBatch
    \/ DoWorkerTakes
    \/ DoWorkerFinishes
    \/ DoCollect
    \/ ReturnStats

SpecPool == Init /\ [][NextPool]_vars

\* ------------------------------------------ specification: Open Library API
\* delay_seconds of an OpenLibraryAPI, in units of time
DelayInputs == 1..MaxDelay

\* the bodies response.json() may return
Payloads == {"a", "b"}

\* what one requests.get call followed by raise_for_status and json() does:
\* it returns a body, raises a requests.RequestException (connection error,
\* timeout, HTTP error status) or raises another Exception
AttemptOutcomes == Payloads \cup {"RequestException", "Exception"}

\* OpenLibraryAPI._make_request up to its loop: _rate_limit sleeps for what
\* is left of delay_seconds since the previous request (`elapsed` ago)
MakeRequest(delay_seconds, elapsed) ==
    /\ request.phase = "idle"
    /\ request.served < MaxCalls
    /\ request' = [NoCall EXCEPT
                     !.phase = "attempting",
                     !.served = request.served,
                     !.delay_seconds = delay_seconds,
                     !.limited = IF elapsed < delay_seconds
                                 THEN delay_seconds - elapsed ELSE 0]
    /\ UNCHANGED outsideRequest

\* the except clause of _make_request: `except requests.RequestException`
Catches(outcome) == outcome = "RequestException"

\* OpenLibraryAPI._make_request, one iteration of `for attempt in
\* range(MAX_RETRIES)`, with the sleep that follows a failed attempt; the
\* last iteration returns or raises, so the `return None` after the loop is
\* never reached
Attempt(outcome) ==
    /\ request.phase = "attempting"
    /\ request.attempt < MAX_RETRIES
    /\ request' =
         IF outcome \in Payloads
         THEN [request EXCEPT !.phase = "returned", !.calls = @ + 1,
                              !.result = outcome]
         ELSE IF ~Catches(outcome)
         THEN [request EXCEPT !.phase = "raised", !.calls = @ + 1]
         ELSE IF request.attempt = MAX_RETRIES - 1
         THEN [request EXCEPT !.phase = "returned", !.calls = @ + 1,
                              !.result = "None"]
         ELSE [request EXCEPT
                 !.calls = @ + 1,
                 !.slept = Append(@, request.delay_seconds *
                                     (RETRY_BACKOFF_FACTOR ^ request.attempt)),
                 !.attempt = @ + 1]
    /\ UNCHANGED outsideRequest

\* the caller has the result (or the exception); the client is free again
CallEnds ==
    /\ request.phase \in {"returned", "raised"}
    /\ request' = [NoCall EXCEPT !.served = request.served + 1]
    /\ UNCHANGED outsideRequest

DoMakeRequest == \E delay_seconds \in DelayInputs, elapsed \in 0..MaxDelay :
    MakeRequest(delay_seconds, elapsed)

DoAttempt == \E outcome \in AttemptOutcomes : Attempt(outcome)

NextRequest == DoMakeRequest \/ DoAttempt \/ CallEnds

SpecRequest == Init /\ [][NextRequest]_vars

\* ------------------------------------------------ specification: seed_books
\* titles, author names and ISBNs an input book may carry ("none": no ISBN)
Titles == {"t1", "t2"}

AuthorNames == {"x", "y"}

IsbnInputs == {"none", "i1", "i2"}

\* the genres _add_genres_from_subjects maps the subjects of a book to
GenreNames == {"Fiction", "Mystery"}

\* the first row of a non-empty set of Book rows (ids grow with insertion)
first(rows) == CHOOSE b \in rows : \A x \in rows : b.id <= x.id

\* seed_books.Command._process_single_book.  `genres` is what the subjects
\* of the fetched metadata map to.
process_single_book(title, author_name, isbn, genres, update_existing, dry_run) ==
    LET byIsbn == IF isbn # "none" THEN {b \in book_rows : b.isbn = isbn} ELSE {}
        \* Author.objects.get_or_create runs when no book has the ISBN
        authors == IF byIsbn = {} THEN author_rows \cup {author_name} ELSE author_rows
        byTitle == {b \in book_rows : b.title = title /\ author_name \in b.authors}
        found == IF byIsbn # {} THEN byIsbn ELSE byTitle
    IN
    /\ processed = NoBook
    /\ IF found # {} /\ ~update_existing
       THEN /\ processed' = [dry_run |-> dry_run, result |-> "None"]
            /\ author_rows' = authors
            /\ UNCHANGED <<book_rows, genre_rows>>
       ELSE IF dry_run
       THEN /\ processed' = [dry_run |-> dry_run,
                             result |-> IF found # {} THEN "updated" ELSE "created"]
            /\ author_rows' = authors
            /\ UNCHANGED <<book_rows, genre_rows>>
       ELSE IF found # {}
       THEN \* _update_book: empty fields are filled, genres are added when
            \* the book has none
            LET book == first(found)
                new == [book EXCEPT
                          !.isbn = IF @ = "none" THEN isbn ELSE @,
                          !.genres = IF @ = {} THEN genres ELSE @]
            IN /\ book_rows' = (book_rows \ {book}) \cup {new}
               /\ author_rows' = authors
               /\ genre_rows' = IF book.genres = {} THEN genre_rows \cup genres
                                ELSE genre_rows
               /\ processed' = [dry_run |-> dry_run, result |-> "updated"]
       ELSE \* _create_book
            /\ Cardinality(book_rows) < MaxBookRows
            /\ book_rows' = book_rows \cup
                 {[id |-> Cardinality(book_rows) + 1, title |-> title,
                   authors |-> {author_name}, isbn |-> isbn, genres |-> genres]}
            /\ author_rows' = authors \cup {author_name}
            /\ genre_rows' = genre_rows \cup genres
            /\ processed' = [dry_run |-> dry_run, result |-> "created"]
    /\ UNCHANGED outsideCatalogue

\* _process_batch has counted the result of the call
ResultCounted ==
    /\ processed # NoBook
    /\ processed' = NoBook
    /\ UNCHANGED <<book_rows, author_rows, genre_rows>>
    /\ UNCHANGED outsideCatalogue

DoProcessSingleBook ==
    \E title \in Titles, author_name \in AuthorNames, isbn \in IsbnInputs,
       genres \in SUBSET GenreNames, update_existing \in BOOLEAN, dry_run \in BOOLEAN :
        process_single_book(title, author_name, isbn, genres, update_existing, dry_run)

NextBooks == DoProcessSingleBook \/ ResultCounted

SpecBooks == Init /\ [][NextBooks]_vars

\* ------------------------- specification: reviews seeded on a bell curve
\* samples of np.random.normal(loc=3.5, scale=0.8), in tenths: below the
\* range, two halves, above the range
SampleInputs == {0 - 6, 25, 35, 58}

\* np.round of a value given in tenths: to the nearest integer, a half to the
\* even neighbour
round(tenths) ==
    LET q == tenths \div 10
        r == tenths % 10
    IN IF r < 5 THEN q
       ELSE IF r > 5 THEN q + 1
       ELSE IF q % 2 = 0 THEN q ELSE q + 1

\* np.clip
clip(v, lo, hi) == IF v < lo THEN lo ELSE IF v > hi THEN hi ELSE v

\* np.clip(np.round(ratings), 1, 5).astype(int), for one sample
SeededRating(tenths) == clip(round(tenths), MinRating, MaxRating)

\* create_reviews_with_bell_curve(num_reviews) up to its loop; the books and
\* users are all the rows of their tables.  `before` keeps the Review table
\* of that moment.
StartReviews(num_reviews) ==
    /\ seeding.phase = "idle"
    /\ Cardinality(reviews) + num_reviews <= MaxReviews
    /\ seeding' = [phase |-> "looping", num_reviews |-> num_reviews,
                   created_reviews |-> 0, attempts |-> 0, before |-> reviews]
    /\ UNCHANGED reviews
    /\ UNCHANGED outsideSeeding

\* the condition of the while loop
LoopGoesOn ==
    /\ seeding.created_reviews < seeding.num_reviews
    /\ seeding.attempts < seeding.num_reviews * 3

\* one iteration of the loop: random.choice of a user and a book, `continue`
\* when the pair has a review, a new Review otherwise
ReviewIteration(u, book, tenths, title, content) ==
    /\ seeding.phase = "looping"
    /\ LoopGoesOn
    /\ IF ReviewOf(u, book) # {}
       THEN /\ seeding' = [seeding EXCEPT !.attempts = @ + 1]
            /\ UNCHANGED reviews
       ELSE /\ seeding' = [seeding EXCEPT !.attempts = @ + 1,
                                          !.created_reviews = @ + 1]
            /\ reviews' = reviews \cup
                 {NewReview(u, book, SeededRating(tenths), title, content)}
    /\ UNCHANGED outsideSeeding

\* the loop has ended and the command returns
ReturnReviews ==
    /\ seeding.phase = "looping"
    /\ ~LoopGoesOn
    /\ seeding' = [seeding EXCEPT !.phase = "returned"]
    /\ UNCHANGED reviews
    /\ UNCHANGED outsideSeeding

\* the command has ended; another run can start
SeedingEnds ==
    /\ seeding.phase = "returned"
    /\ seeding' = NoSeeding
    /\ UNCHANGED reviews
    /\ UNCHANGED outsideSeeding

DoStartReviews == \E num_reviews \in 0..MaxReviews : StartReviews(num_reviews)

DoReviewIteration ==
    \E u \in Users, book \in Books, tenths \in SampleInputs,
       title \in Texts, content \in Texts :
        ReviewIteration(u, book, tenths, title, content)

NextBellCurve ==
    \/ DoStartReviews
    \/ DoReviewIteration
    \/ ReturnReviews
    \/ SeedingEnds

SpecBellCurve == Init /\ [][NextBellCurve]_vars

\* ------------------------------------- specification: reading session status
\* ReadingSession.STATUS_CHOICES
STATUS_CHOICES == {"upcoming", "current", "completed", "cancelled"}

\* status values a form may carry: the choices and a value that is none
StatusInputs == STATUS_CHOICES \cup {"paused"}

\* the ReadingSession rows of a club and book; in this specification a club
\* has at most one session for a book
SessionOf(c, book) == {s \in sessions : s.book_club = c /\ s.book = book}

\* the validation of the `status` field by a ModelForm or ModelSerializer:
\* the value must be one of the choices
validate_status(status) == status \in STATUS_CHOICES

\* a ReadingSession is added through ReadingSessionAdmin (or
\* ReadingSessionSerializer.create), with any of the choices as its status
AddSession(c, book, status) ==
    /\ Exists(c)
    /\ SessionOf(c, book) = {}
    /\ IF validate_status(status)
       THEN sessions' = sessions \cup
                {[book_club |-> c, book |-> book, status |-> status]}
       ELSE UNCHANGED sessions
    /\ UNCHANGED <<clubs, nextClubId, memberships, inflight, last>>
    /\ UNCHANGED <<discussions, recommendations, progress, apart>>

\* the status of a ReadingSession is changed through ReadingSessionAdmin (or
\* ReadingSessionSerializer.update) and the row is saved; ReadingSession has
\* no save or clean of its own
ChangeSession(c, book, status) ==
    /\ SessionOf(c, book) # {}
    /\ IF validate_status(status)
       THEN sessions' = (sessions \ SessionOf(c, book)) \cup
                {[s EXCEPT !.status = status] : s \in SessionOf(c, book)}
       ELSE UNCHANGED sessions
    /\ UNCHANGED <<clubs, nextClubId, memberships, inflight, last>>
    /\ UNCHANGED <<discussions, recommendations, progress, apart>>

DoAddSession == \E c \in ClubIds, book \in Books, status \in StatusInputs :
    AddSession(c, book, status)

DoChangeSession == \E c \in ClubIds, book \in Books, status \in StatusInputs :
    ChangeSession(c, book, status)

NextSession ==
    \/ (last = NoRequest /\ (DoCreate \/ DoDestroy \/ DoSeedReadingSessions))
    \/ DoAddSession
    \/ DoChangeSession
    \/ Deliver

SpecSession == Init /\ [][NextSession]_vars

\* ----------------------------------------------- specification: master_seed
\* the seeding steps of master_seed.Command.handle, in their order
SeedSteps == <<"seed_users", "seed_books", "seed_bookclubs",
               "seed_discussions_reviews_progress">>

Levels == {"basic", "full", "production"}

\* run_seed_step: the `count` passed to the command for the level; 0 stands
\* for no count argument
SeedCount(level, command_name) ==
    IF command_name = "seed_users"
    THEN (IF level = "basic" THEN 10 ELSE IF level = "production" THEN 25 ELSE 50)
    ELSE IF command_name = "seed_books"
    THEN (IF level = "basic" THEN 20 ELSE IF level = "production" THEN 50 ELSE 100)
    ELSE IF command_name = "seed_bookclubs"
    THEN (IF level = "basic" THEN 5 ELSE IF level = "production" THEN 8 ELSE 15)
    ELSE 0

\* the `with transaction.atomic()` block of handle is left without an
\* exception (by a return or at its end): the rows written in it are
\* committed
LeaveAtomic(rows) == seeded \cup rows

\* master_seed.Command.handle up to the first step, on a database without
\* seeded rows: the transaction is open
StartMasterSeed(level, reset) ==
    /\ seed_run.phase = "idle"
    /\ seeded = {}
    /\ seed_run' = [NoRun EXCEPT !.phase = "step", !.level = level,
                                 !.reset = reset]
    /\ UNCHANGED seeded
    /\ UNCHANGED outsideMaster

\* signal_handler: SIGINT arrives while the command runs; the handler
\* announces a rollback and sets the flag
signal_handler ==
    /\ seed_run.phase \in {"step", "check"}
    /\ ~seed_run.interrupted
    /\ seed_run' = [seed_run EXCEPT !.interrupted = TRUE]
    /\ UNCHANGED seeded
    /\ UNCHANGED outsideMaster

\* run_seed_step: call_command returns, the rows of the step are written in
\* the open transaction; a row is told by its command and the arguments
\* (count, clear) the command was called with
StepCompletes ==
    /\ seed_run.phase = "step"
    /\ LET command_name == SeedSteps[seed_run.step + 1] IN
       seed_run' = [seed_run EXCEPT
                      !.phase = "check",
                      !.step = @ + 1,
                      !.written = @ \cup {[command |-> command_name,
                                           count |-> SeedCount(seed_run.level, command_name),
                                           clear |-> seed_run.reset]}]
    /\ UNCHANGED seeded
    /\ UNCHANGED outsideMaster

\* run_seed_step: call_command raises; the exception leaves the atomic block,
\* which rolls back, and handle raises CommandError
StepRaises ==
    /\ seed_run.phase = "step"
    /\ seed_run' = [seed_run EXCEPT !.phase = "ended", !.written = {},
                                    !.outcome = "CommandError"]
    /\ UNCHANGED seeded
    /\ UNCHANGED outsideMaster

\* handle after a step: `if self.interrupted: return`, the next step, or the
\* end of the block after the last step
AfterStep ==
    /\ seed_run.phase = "check"
    /\ IF seed_run.interrupted
       THEN /\ seed_run' = [seed_run EXCEPT !.phase = "ended", !.written = {},
                                            !.outcome = "returned"]
            /\ seeded' = LeaveAtomic(seed_run.written)
       ELSE IF seed_run.step = Len(SeedSteps)
       THEN /\ seed_run' = [seed_run EXCEPT !.phase = "ended", !.written = {},
                                            !.outcome = "completed"]
            /\ seeded' = LeaveAtomic(seed_run.written)
       ELSE /\ seed_run' = [seed_run EXCEPT !.phase = "step"]
            /\ UNCHANGED seeded
    /\ UNCHANGED outsideMaster

DoStartMasterSeed == \E level \in Levels, reset \in BOOLEAN :
    StartMasterSeed(level, reset)

NextMaster ==
    \/ DoStartMasterSeed
    \/ signal_handler
    \/ StepCompletes
    \/ StepRaises
    \/ AfterStep

SpecMaster == Init /\ [][NextMaster]_vars

\* ================================================================== claims
CreatorRows(c) == PairRows(clubs[c].creator, c)

InactiveRows(c) == {m \in memberships : m.book_club = c /\ ~m.is_active}

\* the visibility predicate of the specification
Visible(u) == {c \in DOMAIN clubs :
    \/ ~clubs[c].is_private
    \/ clubs[c].creator = u
    \/ IsActiveMember(u, c)}

\* C1: in every reachable state member_count(club) equals the number of the
\* club's Membership rows with is_active = true; a membership deactivated by
\* leave is not counted.
C1_MemberCountIsActiveCount ==
    \A c \in DOMAIN clubs : member_count(c) = ActiveCount(c)

\* C2: club creation is atomic: once no create is in progress (it completed,
\* failed or its process stopped), every stored club has a Membership row of
\* its creator.
C2_CreateAtomic ==
    inflight = 0 => \A c \in DOMAIN clubs : CreatorRows(c) # {}

\* C3: every existing club, created through the API or by the seed command,
\* has exactly one Membership row for its creator, with role admin and
\* is_active true.
C3_CreatorIsAdmin ==
    \A c \in DOMAIN clubs :
        /\ Cardinality(CreatorRows(c)) = 1
        /\ \A m \in CreatorRows(c) : m.role = "admin" /\ m.is_active

\* C4: under sequential requests the active memberships of a club never
\* exceed its max_members; a join is accepted only below capacity and adds one
\* row; a join refused for capacity adds none; and in a public club that
\* nobody has left, a user who is not a member is refused only for capacity,
\* with exactly max_members active members (the creator and max_members - 1
\* joiners).
C4_Capacity ==
    /\ \A c \in DOMAIN clubs : ActiveCount(c) <= clubs[c].max_members
    /\ (last.op = "join" /\ Exists(last.club) /\ last.user \in Users) =>
         LET c == last.club
             u == last.user IN
         /\ last.status = "Joined" =>
                /\ last.before < clubs[c].max_members
                /\ member_count(c) = last.before + 1
                /\ ActiveCount(c) <= clubs[c].max_members
         /\ last.status = "AtCapacity" =>
                /\ last.before >= clubs[c].max_members
                /\ member_count(c) = last.before
         /\ (~clubs[c].is_private /\ InactiveRows(c) = {} /\ ~IsActiveMember(u, c)) =>
                /\ last.status = "AtCapacity"
                /\ PairRows(u, c) = {}
                /\ ActiveCount(c) = clubs[c].max_members

\* C4 witness: a join by a non-member was refused for capacity in a club
\* that nobody has left and that holds max_members active members
C4_Witness ==
    /\ last.op = "join" /\ last.status = "AtCapacity" /\ Exists(last.club)
    /\ InactiveRows(last.club) = {}
    /\ PairRows(last.user, last.club) = {}
    /\ ActiveCount(last.club) = clubs[last.club].max_members

\* C5: a successful join by a non-creator who was not an active member,
\* followed at once by that user's leave, returns member_count to the value
\* it had before the join.
C5_JoinLeaveRestoresCount ==
    [][(/\ last.op = "join" /\ last.status = "Joined"
        /\ last'.op = "leave" /\ last'.status = "Left"
        /\ last'.user = last.user /\ last'.club = last.club)
       => Cardinality({m \in memberships' : m.book_club = last.club}) = last.before]_vars

\* C6: a non-creator who joined a public club and left it can join again
\* while the club is below capacity (here even with the rows of former
\* members counted): the join succeeds, the user is an active member, and the
\* pair still has exactly one Membership row.
C6_RejoinReactivates ==
    [][\A u \in Users, c \in ClubIds :
        (/\ Exists(c) /\ ~clubs[c].is_private /\ clubs[c].creator # u
         /\ PairRows(u, c) # {} /\ ~IsActiveMember(u, c)
         /\ ActiveCount(c) < clubs[c].max_members
         /\ member_count(c) < clubs[c].max_members
         /\ Join(u, c))
        => /\ last'.status = "Joined"
           /\ \E m \in memberships' : m.user = u /\ m.book_club = c /\ m.is_active
           /\ Cardinality({m \in memberships' : m.user = u /\ m.book_club = c}) = 1]_vars

\* C7: a leave frees a capacity slot: in a public club with max_members = 2
\* that holds its creator and user B who joined and then left, member_count is
\* 1 and the join of a third user C succeeds and brings member_count to 2.
C7_LeaveFreesSlot ==
    [][\A b \in Users, u \in Users, c \in ClubIds :
        (/\ Exists(c) /\ ~clubs[c].is_private /\ clubs[c].max_members = 2
         /\ b # clubs[c].creator /\ u # clubs[c].creator /\ u # b
         /\ IsActiveMember(clubs[c].creator, c)
         /\ PairRows(b, c) # {} /\ ~IsActiveMember(b, c)
         /\ PairRows(u, c) = {}
         /\ Join(u, c))
        => /\ member_count(c) = 1
           /\ last'.status = "Joined"
           /\ Cardinality({m \in memberships' : m.book_club = c}) = 2]_vars

\* C8: a join of a private club by a user who is neither its creator nor an
\* active member fails with the private-club Forbidden outcome and creates no
\* Membership row.
C8_PrivateJoinForbidden ==
    [][\A u \in Users, c \in ClubIds :
        (/\ Exists(c) /\ clubs[c].is_private /\ clubs[c].creator # u
         /\ ~IsActiveMember(u, c)
         /\ Join(u, c))
        => /\ last'.status = "PrivateClubForbidden"
           /\ memberships' = memberships]_vars

\* a successful leave of a private club has just been answered
LeftPrivateClub ==
    /\ last.op = "leave" /\ last.status = "Left"
    /\ Exists(last.club) /\ clubs[last.club].is_private

\* C9 as stated: list, search and discovery all return to every requester
\* exactly the clubs that are public, created by the requester or in which
\* the requester holds an active membership.
C9_UniformVisibility ==
    \A u \in Requesters :
        /\ get_queryset(u) = Visible(u)
        /\ search_queryset(u) = Visible(u)
        /\ book_club_discovery(u) = Visible(u)

\* C9 amended: list and search return to every requester, anonymous
\* included, exactly the visible clubs; discovery returns public clubs only,
\* to everybody; and a private club is returned by none of the three to a
\* non-creator whose membership a leave has just deactivated.
C9_Visibility ==
    /\ \A u \in Requesters :
        /\ get_queryset(u) = Visible(u)
        /\ search_queryset(u) = Visible(u)
        /\ book_club_discovery(u) \subseteq PublicClubs
        /\ book_club_discovery(u) \subseteq Visible(u)
    /\ LeftPrivateClub =>
        last.club \notin (get_queryset(last.user) \cup search_queryset(last.user)
                          \cup book_club_discovery(last.user))

\* C9 witness: a member has just left a private club, which the list no
\* longer returns to them and still returns to its creator
C9_Witness ==
    /\ LeftPrivateClub
    /\ last.club \notin get_queryset(last.user)
    /\ last.club \in get_queryset(clubs[last.club].creator)
    /\ last.club \notin book_club_discovery(clubs[last.club].creator)

\* C10: leave called by a club's creator fails with the creator-cannot-leave
\* error, whatever Membership row the creator holds, and changes no
\* Membership row.
C10_CreatorCannotLeave ==
    [][\A c \in ClubIds :
        (Exists(c) /\ Leave(clubs[c].creator, c))
        => /\ last'.status = "CreatorCannotLeave"
           /\ memberships' = memberships]_vars

\* C10 witness: the creator's leave was refused while the creator held no
\* admin membership (none at all, or one with role member)
C10_Witness ==
    /\ last.op = "leave" /\ last.status = "CreatorCannotLeave"
    /\ Exists(last.club) /\ last.user = clubs[last.club].creator
    /\ \A m \in CreatorRows(last.club) : m.role = "member"
    /\ ActiveCount(last.club) > 0

\* the inviters the invite permission rule names: the club's creator, and
\* the holders of an active membership with role moderator or admin
MayInvite(u, c) ==
    \/ clubs[c].creator = u
    \/ \E m \in memberships :
          /\ m.user = u /\ m.book_club = c /\ m.is_active
          /\ m.role \in {"moderator", "admin"}

\* C11: in a club the inviter can retrieve, an invite by the club's creator
\* (with or without an active Membership row) or by an active moderator or
\* admin is not refused for permission, and an invite by anybody else (plain
\* member, former member, non-member) is answered Forbidden.
C11_InvitePermission ==
    [][\A u \in Users, c \in ClubIds, invitee \in Requesters :
        (Exists(c) /\ get_object(u, c) /\ Invite(u, c, invitee))
        => IF MayInvite(u, c)
           THEN last'.status \in {"Invited", "ValidationError"}
           ELSE last'.status = "Forbidden"]_vars

\* C12: an invite, accepted or refused, leaves the Membership table as it
\* was: no row is created, deleted or modified, so the invitee is an active
\* member afterwards only if they were one before.
C12_InviteKeepsMemberships ==
    [][\A u \in Users, c \in ClubIds, invitee \in Requesters :
        (Exists(c) /\ Invite(u, c, invitee))
        => /\ memberships' = memberships
           /\ (\E m \in memberships' : m.user = invitee /\ m.book_club = c /\ m.is_active)
                => IsActiveMember(invitee, c)]_vars

\* C12 witness: an invitation was sent by a moderator who is not the
\* creator, and a user without any Membership row in the club (as the
\* invitee must be) still has none
C12_Witness ==
    /\ last.op = "invite" /\ last.status = "Invited" /\ Exists(last.club)
    /\ last.user # clubs[last.club].creator
    /\ \E m \in PairRows(last.user, last.club) : m.role = "moderator" /\ m.is_active
    /\ \E v \in Users : PairRows(v, last.club) = {}

\* the rows of every table that point to club c
ClubContent(c) ==
    <<ClubRows(c),
      {s \in sessions : s.book_club = c},
      {d \in discussions : d.book_club = c},
      {r \in recommendations : r.book_club = c}>>

ClubRules ==
    /\ \A c \in DOMAIN clubs, d \in DOMAIN clubs :
          (c # d /\ clubs[c].creator = clubs[d].creator) => clubs[c].name # clubs[d].name
    /\ \A c \in DOMAIN clubs :
          MinMaxMembers <= clubs[c].max_members /\ clubs[c].max_members <= MaxMaxMembers

\* C14: after any sequence of create and update requests no creator owns two
\* clubs with the same name and every club has 2 <= max_members <= 1000; and
\* a create whose name the requester already uses, or whose max_members is
\* out of range, is answered with a validation error and writes neither a
\* club nor a membership.
C14_ClubRules ==
    /\ []ClubRules
    /\ [][\A u \in Users, name \in UpdateNames, priv \in BOOLEAN, maxm \in CapacityInputs :
            (/\ CreateWithin(MaxRenamedClubs, u, name, priv, maxm)
             /\ \/ \E c \in DOMAIN clubs : clubs[c].creator = u /\ clubs[c].name = name
                \/ maxm < MinMaxMembers \/ maxm > MaxMaxMembers)
            => /\ last'.status = "ValidationError"
               /\ UNCHANGED <<clubs, memberships>>]_vars

\* C15: when join requests of one user for one club interleave (each passes
\* the already-member test before any of them writes), the pair never has
\* more than one Membership row: a write for a pair that already has a row is
\* rejected by the unique constraint, adds no row and is answered with a
\* failure.
C15_RacingJoinsOneRow ==
    /\ [](\A u \in Users, c \in ClubIds : Cardinality(PairRows(u, c)) <= 1)
    /\ [][\A u \in Users, c \in ClubIds :
            (JoinWrite(u, c) /\ PairRows(u, c) # {})
            => /\ last'.status = "IntegrityError"
               /\ memberships' = memberships]_vars

\* C15 witness: a join was refused by the store although the user never
\* left the club: the pair's only row is the active one that a racing
\* request of the same user wrote first
C15_Witness ==
    /\ last.op = "join" /\ last.status = "IntegrityError" /\ Exists(last.club)
    /\ last.user # clubs[last.club].creator
    /\ Cardinality(PairRows(last.user, last.club)) = 1
    /\ IsActiveMember(last.user, last.club)

\* C16: a join whose insert the store rejects for the unique constraint on
\* (user, book_club) is answered with a failure of kind Conflict (HTTP 409)
\* that carries a message, not with a storage error and not with a success,
\* and adds no row.
C16_UniqueViolationIsConflict ==
    [][\A u \in Users, c \in ClubIds :
        (Exists(c) /\ Join(u, c) /\ JoinStatus(u, c) = "IntegrityError")
        => /\ JoinResponse(last'.status).status = "HTTP_409_CONFLICT"
           /\ JoinResponse(last'.status).detail # ""
           /\ memberships' = memberships]_vars

\* C17: in every reachable state each (user, book) pair has at most one
\* Review, and a create-review for a pair that already has a review is
\* answered with a failure of kind Conflict (HTTP 409) and leaves the Review
\* table, and so the existing review's rating, title and content, unchanged.
C17_OneReviewPerPair ==
    /\ [](\A u \in Users, book \in Books : Cardinality(ReviewOf(u, book)) <= 1)
    /\ [][\A u \in Users, book \in Books, rating \in MinRating..MaxRating,
             title \in Texts, content \in Texts :
            (CreateReview(u, book, rating, title, content) /\ ReviewOf(u, book) # {})
            => /\ custom_exception_handler(last'.status).status = "HTTP_409_CONFLICT"
               /\ reviews' = reviews]_vars

\* the row that the next state stores under the key of row p
StoredNext(p) ==
    CHOOSE q \in progress' :
        q.user = p.user /\ q.book = p.book /\ q.session_club = p.session_club

\* what one save must do to the timestamps: old is the stored row (both
\* timestamps None for a row being created), new the row after the save of
\* the field values current_page and is_finished at time t
StampsOnce(old, new, current_page, is_finished, t) ==
    /\ old.started_at # Null => new.started_at = old.started_at
    /\ old.finished_at # Null => new.finished_at = old.finished_at
    /\ (old.started_at = Null /\ current_page > 0) => new.started_at = t
    /\ (old.finished_at = Null /\ is_finished) =>
          /\ new.finished_at = t
          /\ page_count(old.book) # 0 => new.current_page = page_count(old.book)

\* C18: ReadingProgress.save stamps each timestamp once: the first save with
\* current_page > 0 sets started_at to the time of the save, the first save
\* with is_finished true sets finished_at to the time of the save (never
\* None) and current_page to the book's page count when that is known, and a
\* save of any current_page and is_finished values leaves a started_at or
\* finished_at that is already set as it was.
C18_StampsOnce ==
    [][/\ \A p \in progress, current_page \in 0..MaxPages, is_finished \in BOOLEAN :
            UpdateProgress(p, current_page, is_finished)
            => /\ now' # Null
               /\ StampsOnce(p, StoredNext(p), current_page, is_finished, now')
       /\ \A u \in Users, book \in Books, current_page \in 0..MaxPages, is_finished \in BOOLEAN :
            CreateProgress(u, book, current_page, is_finished)
            => LET blank == [user |-> u, book |-> book, session_club |-> 0,
                             started_at |-> Null, finished_at |-> Null] IN
               /\ now' # Null
               /\ StampsOnce(blank, StoredNext(blank), current_page, is_finished, now')]_vars

\* C18 witness: a row of a book with a known page count was started by one
\* save, finished by a later one, and saved again after that; it still has
\* both timestamps, and its current_page is the page count
C18_Witness ==
    \E p \in progress :
        /\ page_count(p.book) # 0
        /\ p.started_at # Null
        /\ p.finished_at > p.started_at
        /\ now > p.finished_at
        /\ p.is_finished /\ p.current_page = page_count(p.book)

\* C19: every stored ReadingProgress row that is finished has a finished_at
\* and its current_page equal to the book's page count (0 when the page count
\* is unknown), and every stored row that is not finished has no
\* finished_at.
C19_FinishedConsistent ==
    \A p \in progress :
        IF p.is_finished
        THEN p.finished_at # Null /\ p.current_page = page_count(p.book)
        ELSE p.finished_at = Null

\* fractions <<n, d>> with d > 0: equality, and the whole number k
SameFraction(a, b) == a[1] * b[2] = b[1] * a[2]

Whole(k) == <<k, 1>>

\* (today - start_date) / (end_date - start_date) * 100 clamped to [0, 100],
\* for end_date # start_date
ClampedElapsed(start_date, end_date, today) ==
    LET sign == IF end_date > start_date THEN 1 ELSE -1
        n == sign * (today - start_date) * 100
        d == sign * (end_date - start_date) IN
    IF n < 0 THEN Whole(0)
    ELSE IF n > 100 * d THEN Whole(100)
    ELSE <<n, d>>

InRange(v) == 0 <= v[1] /\ v[1] <= 100 * v[2]

\* C20 as stated: the value read is in [0, 100]; it is 100 for a completed
\* session and, for every other status, the clamped elapsed fraction times
\* 100, or 0 when end_date = start_date.
C20_ClampedForEveryStatus ==
    shown # NotShown =>
        /\ InRange(shown)
        /\ SameFraction(shown,
              IF probe.status = "completed" THEN Whole(100)
              ELSE IF probe.end_date = probe.start_date THEN Whole(0)
              ELSE ClampedElapsed(probe.start_date, probe.end_date, probe.today))

\* C20 amended: the value read is in [0, 100]; it is 100 for a completed
\* session, 0 for an upcoming session whatever the dates, 0 when end_date is
\* not after start_date, and otherwise (current or cancelled, end_date after
\* start_date) the clamped elapsed fraction times 100: 50 on 2024-01-16 for
\* a session from 2024-01-01 to 2024-01-31, 0 before start_date and 100
\* after end_date.
C20_ProgressPercentage ==
    shown # NotShown =>
        /\ InRange(shown)
        /\ SameFraction(shown,
              IF probe.status = "completed" THEN Whole(100)
              ELSE IF probe.status = "upcoming" THEN Whole(0)
              ELSE IF probe.end_date <= probe.start_date THEN Whole(0)
              ELSE ClampedElapsed(probe.start_date, probe.end_date, probe.today))
        /\ (/\ probe.status \in {"current", "cancelled"}
            /\ probe.end_date > probe.start_date) =>
              /\ probe.today < probe.start_date => shown = Whole(0)
              /\ probe.today > probe.end_date => shown = Whole(100)
              /\ (probe.start_date = 1 /\ probe.end_date = 31 /\ probe.today = 16)
                    => SameFraction(shown, Whole(50))

\* C20 witness: the progress of a current session from day 1 to day 31 was
\* read on day 16 and is 50
C20_Witness ==
    /\ probe = [status |-> "current", start_date |-> 1, end_date |-> 31, today |-> 16]
    /\ shown # NotShown
    /\ SameFraction(shown, Whole(50))

\* the Follow table holds no row from a user to themselves and at most one
\* row for each ordered pair
NoSelfOrDuplicateFollow ==
    /\ \A f \in follows : f.follower # f.following
    /\ \A follower \in Users, following \in Users :
        Cardinality(FollowRows(follower, following)) <= 1

\* C21: the follow relation never holds a self-edge or two rows of one
\* ordered (follower, following) pair; a follow of a user already followed
\* answers with the existing relation (200) and adds no row, and a follow of
\* oneself fails validation (400 with the serializer's errors) and adds no row
C21_FollowRelation ==
    /\ []NoSelfOrDuplicateFollow
    /\ [][(last = NoRequest /\ last' # NoRequest /\ last'.op = "follow") =>
            /\ FollowRows(last'.user, last'.user_id) # {} =>
                 /\ follows' = follows
                 /\ last'.status = "HTTP_200_OK"
            /\ (last'.user \in Users /\ last'.user_id = last'.user) =>
                 /\ follows' = follows
                 /\ last'.status = "HTTP_400_BAD_REQUEST"
                 /\ last'.body = "errors"]_vars

\* a user has followed a user they already follow, and the answer is in flight
C21_Witness ==
    /\ last # NoRequest
    /\ last.op = "follow"
    /\ last.status = "HTTP_200_OK"
    /\ FollowRows(last.user, last.user_id) # {}
    /\ Cardinality(follows) >= 2

\* the statuses of a response that reports no error
NonErrorStatus == {"HTTP_200_OK", "HTTP_201_CREATED", "HTTP_204_NO_CONTENT"}

\* C22: an unfollow by a user who does not follow the target answers with a
\* non-error result and leaves the Follow table as it was; an unfollow by a
\* user who does follow the target removes the row of that pair and no other
C22_UnfollowNoOpSafe ==
    [][(/\ last = NoRequest /\ last' # NoRequest /\ last'.op = "unfollow"
        /\ last'.user \in Users
        /\ validate_user_id(last'.user, last'.user_id)) =>
          IF FollowRows(last'.user, last'.user_id) = {}
          THEN /\ follows' = follows
               /\ last'.status \in NonErrorStatus
          ELSE /\ follows' = follows \ FollowRows(last'.user, last'.user_id)
               /\ Cardinality(follows') = Cardinality(follows) - 1]_vars

\* the objects of the batch: those that had a URL when the tasks were made
InBatch == {o \in Objects : futures[o].state # "none"}

\* C23: when the batch returns, every object with a URL was counted once in
\* 'validated' whatever the completion order and the number of workers, and
\* an object whose validation raised was counted in 'errors', not in
\* 'updated', and has the image_url it had
C23_RaisedValidationIsAnError ==
    run.phase = "returned" =>
        /\ stats.validated = Cardinality(InBatch)
        /\ \A o \in InBatch : "validated" \in futures[o].counted
        /\ \A o \in InBatch : futures[o].raised =>
             /\ "errors" \in futures[o].counted
             /\ "updated" \notin futures[o].counted
             /\ image_url[o] = "original"

\* the waits between the attempts made so far: delay_seconds * 2^attempt
BackoffWaits ==
    \A i \in 1..Len(request.slept) :
        request.slept[i] = request.delay_seconds * (RETRY_BACKOFF_FACTOR ^ (i - 1))

\* C24: _make_request ends after at most MAX_RETRIES HTTP attempts; it
\* returns the response of the first attempt that succeeds, and when every
\* attempt raises (a RequestException or a plain Exception) it returns None
\* after exactly MAX_RETRIES attempts and never lets the error escape; it
\* waits delay_seconds * 2^attempt between attempts
C24_RetriesThenNone ==
    /\ request.calls <= MAX_RETRIES
    /\ request.phase # "raised"
    /\ (request.phase = "returned" /\ request.result = "None") =>
           request.calls = MAX_RETRIES
    /\ (request.phase = "returned" /\ request.result # "None") =>
           /\ request.result \in Payloads
           /\ request.calls = request.attempt + 1
    /\ Len(request.slept) = request.attempt
    /\ BackoffWaits

\* C25: a _process_single_book call in dry-run mode reports 'created' or
\* 'updated' and leaves the Book, Author and Genre tables as they were
C25_DryRunWritesNothing ==
    [][(processed = NoBook /\ processed' # NoBook /\ processed'.dry_run) =>
          /\ processed'.result \in {"created", "updated"}
          /\ UNCHANGED <<book_rows, author_rows, genre_rows>>]_vars

\* C26: a run of create_reviews_with_bell_curve(n) makes at most 3n passes of
\* its loop, and when it returns exactly n reviews were added, each with an
\* integer rating in [1, 5], and no (user, book) pair has two reviews
C26_ExactlyNReviews ==
    /\ seeding.attempts <= 3 * seeding.num_reviews
    /\ seeding.phase = "returned" =>
         /\ seeding.before \subseteq reviews
         /\ Cardinality(reviews \ seeding.before) = seeding.num_reviews
         /\ \A r \in reviews \ seeding.before :
              r.rating \in MinRating..MaxRating
         /\ \A u \in Users, book \in Books : Cardinality(ReviewOf(u, book)) <= 1

\* the edges of the session state machine
StatusEdges ==
    {<<"upcoming", "current">>, <<"current", "completed">>,
     <<"upcoming", "cancelled">>, <<"current", "cancelled">>}

\* C27: the stored status of a ReadingSession stays as it is or moves along
\* upcoming -> current, current -> completed, upcoming -> cancelled or
\* current -> cancelled; a completed or cancelled session keeps its status
C27_StatusFollowsEdges ==
    [][\A c \in ClubIds, book \in Books :
         \A s \in SessionOf(c, book) : \A t \in SessionOf(c, book)' :
            \/ t.status = s.status
            \/ <<s.status, t.status>> \in StatusEdges]_vars

\* C28: when a master_seed run has ended after a SIGINT or after a step that
\* raised, no row written by its steps is persisted
C28_AllOrNothing ==
    (/\ seed_run.phase = "ended"
     /\ (seed_run.interrupted \/ seed_run.outcome = "CommandError")) =>
        seeded = {}

\* C29: with join requests of different users interleaved (each passes the
\* capacity test before the other writes), the active memberships of a club
\* never exceed its max_members: of two racing joins for the last place at
\* most one is accepted
C29_CapacityUnderInterleaving ==
    \A c \in ClubIds : Exists(c) =>
        Cardinality({u \in Users : IsActiveMember(u, c)}) <= clubs[c].max_members

\* C30: an update or partial update of a club requested by a user who is not
\* its creator is rejected and leaves the club as it was, and no update
\* changes the creator of a club
C30_OnlyCreatorUpdates ==
    [][(/\ last = NoRequest
        /\ last'.op \in {"update", "partial_update"}
        /\ Exists(last'.club)) =>
          /\ last'.user # clubs[last'.club].creator =>
               /\ last'.status # "Updated"
               /\ clubs' = clubs
          /\ clubs'[last'.club].creator = clubs[last'.club].creator]_vars

====
